---- MODULE Spec2Model ----
(***************************************************************************)
(* Model of tools/anki/update_notes_from_tsv.py: main() reads the rows of  *)
(* an import TSV, resolves missing noteIds through findNotes, fetches the  *)
(* notes' fields once (notesInfo), reconciles every row into an update or  *)
(* a skip, and then either previews (--dry-run) or sends updateNoteFields. *)
(*                                                                         *)
(* Strings whose characters matter (payload columns) are sequences of      *)
(* one-character strings; identifiers and field names are TLA+ strings.    *)
(* The empty string "" stands for both None and "" where the code tests    *)
(* truthiness only.                                                        *)
(***************************************************************************)
EXTENDS Integers, Sequences, FiniteSets, TLC

VARIABLES
    rows,        \* list[dict]: the TSV rows read by read_import_html_tsv
    args,        \* parsed command line: front_field, back_field, field, dry_run
    anki,        \* the collection behind AnkiConnect: find, notes, rejects
    pc,          \* position of main()
    ri,          \* index of the next row of the resolver loop
    mapping,     \* resolver's dict note_id -> noteId
    resolved,    \* main's copy of the resolver's result
    note_ids,    \* de-duplicated ids passed to notesInfo
    info_map,    \* noteId -> fields of the fetched notes
    i,           \* index of the next row of the reconciliation loop
    updates,     \* prepared updates {"id", "fields"}
    update_row,  \* row index each prepared update was appended for
    skipped,     \* counter of skipped rows
    ai,          \* index of the next update of the apply loop
    requests,    \* AnkiConnect requests issued so far, in order
    out,         \* SKIP / WARNING / summary lines printed so far, in order
    preview,     \* DRY RUN lines printed so far, in order
    \* tools/anki/html_frontback_to_tsv.py
    html,        \* the input document, a sequence of tags, entities and text
    note_map,    \* optional mapping note_id -> noteId (--map)
    xpc,         \* position of the extractor's main()
    headings,    \* result of _find_heading_positions
    hi,          \* index of the next heading of the walk
    cur_note_id, \* title of the last H2 walked, None before the first
    out_rows,    \* rows collected for the output TSV
    row_heading, \* index of the heading each collected row was appended for
    \* a payload on its way from the export writer to the update reader
    payload,     \* the rendered front_html / back_html
    cell,        \* the TSV cell written by _tsv_safe
    readback,    \* the value the reader obtains through _nl
    epc          \* position of the payload: rendered, written or read

update_vars == <<rows, args, anki, pc, ri, mapping, resolved, note_ids, info_map,
                 i, updates, update_row, skipped, ai, requests, out, preview>>

extract_vars == <<html, note_map, xpc, headings, hi, cur_note_id, out_rows,
                  row_heading>>

escape_vars == <<payload, cell, readback, epc>>

vars == <<update_vars, extract_vars, escape_vars>>

----------------------------------------------------------------------------
(* Bounds *)

MaxRows == 2
MaxApplyRows == 4
MaxFields == 3

----------------------------------------------------------------------------
(* Program constants *)

CANDIDATE_ANSWER_FIELDS ==
    << "Answer", "Back", "answer", "back", "answer_md", "answer_html",
       "Answer_md", "Answer_html", "Back_md", "Back_html" >>

DefaultFrontField == "Front"

PreviewCount == 3

PreviewWidth == 120

----------------------------------------------------------------------------
(* Strings *)

Rep(c, n) == [k \in 1..n |-> c]

Range(s) == {s[k] : k \in DOMAIN s}

Min(a, b) == IF a < b THEN a ELSE b

\* s.replace("\\n", "\n"): every backslash directly followed by the letter n
\* becomes one newline.  Two occurrences cannot overlap (the second character
\* of one is never the first of another), so the left-to-right scan of
\* str.replace finds every position k with s[k], s[k+1] = \, n; the string is
\* therefore replaced half by half, cut where no occurrence is split.
RECURSIVE _nl(_)
_nl(s) ==
    IF Len(s) <= 2
    THEN IF s = << "\\", "n" >> THEN << "\n" >> ELSE s
    ELSE LET m == Len(s) \div 2
             cut == IF s[m] = "\\" /\ s[m + 1] = "n" THEN m + 1 ELSE m
         IN  _nl(SubSeq(s, 1, cut)) \o _nl(SubSeq(s, cut + 1, Len(s)))

\* s.replace("\n", "\\n"): every newline becomes the two characters \ and n
RECURSIVE EscapeNl(_)
EscapeNl(s) ==
    IF Len(s) = 0 THEN << >>
    ELSE IF Len(s) = 1
         THEN IF s[1] = "\n" THEN << "\\", "n" >> ELSE s
         ELSE LET m == Len(s) \div 2
              IN  EscapeNl(SubSeq(s, 1, m)) \o EscapeNl(SubSeq(s, m + 1, Len(s)))

\* decimal strings of the note ids used by the model
IdDigits == << "1", "2", "3", "4", "5", "6", "7", "8", "9" >>

int(s) == CHOOSE n \in DOMAIN IdDigits : IdDigits[n] = s

str(n) == IdDigits[n]

----------------------------------------------------------------------------
(* choose_answer_field *)

RECURSIVE FirstCandidate(_, _)
FirstCandidate(note_fields, k) ==
    IF k > Len(CANDIDATE_ANSWER_FIELDS) THEN ""
    ELSE IF CANDIDATE_ANSWER_FIELDS[k] \in Range(note_fields)
         THEN CANDIDATE_ANSWER_FIELDS[k]
         ELSE FirstCandidate(note_fields, k + 1)

\* choose_answer_field that auto-detects when the override is not on the note
choose_answer_field_fallback(note_fields, preferred) ==
    IF preferred # "" /\ preferred \in Range(note_fields)
    THEN [ok |-> TRUE, field |-> preferred]
    ELSE IF FirstCandidate(note_fields, 1) # ""
         THEN [ok |-> TRUE, field |-> FirstCandidate(note_fields, 1)]
         ELSE IF Len(note_fields) = 2
              THEN [ok |-> TRUE, field |-> note_fields[2]]
              ELSE [ok |-> FALSE, field |-> ""]

\* note_fields is the ordered list of the note's field names (dict keys).
\* The result is [ok |-> TRUE, field |-> f] or, for the raised ValueError,
\* [ok |-> FALSE, field |-> ""].
choose_answer_field(note_fields, preferred) ==
    IF preferred # ""
    THEN IF preferred \in Range(note_fields)
         THEN [ok |-> TRUE, field |-> preferred]
         ELSE [ok |-> FALSE, field |-> ""]
    ELSE IF FirstCandidate(note_fields, 1) # ""
         THEN [ok |-> TRUE, field |-> FirstCandidate(note_fields, 1)]
         ELSE IF Len(note_fields) = 2
              THEN [ok |-> TRUE, field |-> note_fields[2]]
              ELSE [ok |-> FALSE, field |-> ""]

----------------------------------------------------------------------------
(* resolve_note_ids_from_note_id_field *)

\* a resolver that consults its mapping before it looks a note_id up
NeedsLookup_memo(r) ==
    r.note_id # "" /\ r.noteId = "" /\ r.note_id \notin DOMAIN mapping

\* line 123 negated: the row is looked up
NeedsLookup(r) == r.note_id # "" /\ r.noteId = ""

\* a resolver that adopts the last match
Adopt_last(found) == found[Len(found)]

\* line 137: the id adopted from a non-empty findNotes result
Adopt(found) == found[1]

\* dict assignment mapping[k] = v
DictPut(d, k, v) == (k :> v) @@ d

\* one AnkiConnect request; the fields a given action does not use are blank
NoNote == [id |-> 0, fields |-> << >>]

Request(action, query, row, note) ==
    [action |-> action, query |-> query, row |-> row, note |-> note]

\* one printed line
Line(kind, row, reason, n) ==
    [kind |-> kind, row |-> row, reason |-> reason, n |-> n]

\* one iteration of the loop of lines 119-137
ResolveRow ==
    /\ pc = "resolve"
    /\ ri <= Len(rows)
    /\ LET r == rows[ri]
           found == anki.find[r.note_id]
       IN  IF ~NeedsLookup(r)
           THEN UNCHANGED <<mapping, requests, out>>
           ELSE /\ requests' = Append(requests,
                                      Request("findNotes", r.note_id, ri, NoNote))
                /\ IF Len(found) = 0
                   THEN UNCHANGED <<mapping, out>>
                   ELSE /\ mapping' = DictPut(mapping, r.note_id, Adopt(found))
                        /\ out' = IF Len(found) > 1
                                  THEN Append(out, Line("WARNING", ri,
                                              "multiple notes match", found[1]))
                                  ELSE out
    /\ ri' = ri + 1
    /\ UNCHANGED <<extract_vars, escape_vars>>
    /\ UNCHANGED <<rows, args, anki, pc, resolved, note_ids, info_map, i,
                   updates, update_row, skipped, ai, preview>>

----------------------------------------------------------------------------
(* main: collecting the ids and fetching the notes once (lines 193-213) *)

\* lines 197-206: the id a row contributes to the notesInfo request, if any
RECURSIVE CollectIds(_, _)
CollectIds(rs, res) ==
    IF Len(rs) = 0 THEN << >>
    ELSE LET r == rs[1]
         IN  (IF r.noteId # ""
              THEN <<int(r.noteId)>>
              ELSE IF r.note_id # "" /\ r.note_id \in DOMAIN res
                   THEN <<res[r.note_id]>>
                   ELSE << >>)
             \o CollectIds(Tail(rs), res)

\* line 210: de-duplication that keeps the first occurrence
RECURSIVE Dedupe(_, _)
Dedupe(s, seen) ==
    IF Len(s) = 0 THEN << >>
    ELSE IF s[1] \in seen
         THEN Dedupe(Tail(s), seen)
         ELSE <<s[1]>> \o Dedupe(Tail(s), seen \cup {s[1]})

\* lines 212-213: notesInfo answers {} for an id the collection lacks, and
\* the comprehension drops those answers; anki.notes maps the ids of the
\* existing notes to their ordered field names
InfoMap(ids) ==
    [n \in Range(ids) \cap DOMAIN anki.notes |-> anki.notes[n]]

FetchInfo ==
    /\ pc = "resolve"
    /\ ri > Len(rows)
    /\ resolved' = mapping
    /\ note_ids' = Dedupe(CollectIds(rows, mapping), {})
    /\ requests' = Append(requests, Request("notesInfo", "", 0, NoNote))
    /\ info_map' = InfoMap(note_ids')
    /\ pc' = "reconcile"
    /\ UNCHANGED <<extract_vars, escape_vars>>
    /\ UNCHANGED <<rows, args, anki, ri, mapping, i, updates, update_row,
                   skipped, ai, out, preview>>

----------------------------------------------------------------------------
(* main: the reconciliation loop (lines 223-300) *)

\* fields_to_update is an insertion-ordered dict: a sequence of entries with
\* distinct names; assigning to an existing name replaces its value in place
DictSet(d, name, value) ==
    IF \E k \in DOMAIN d : d[k].name = name
    THEN [k \in DOMAIN d |->
            IF d[k].name = name THEN [name |-> name, value |-> value] ELSE d[k]]
    ELSE Append(d, [name |-> name, value |-> value])

\* reconciliation that lets a resolved id replace the supplied one
RowNoteId_preferResolved(r, res) ==
    IF r.note_id # "" /\ r.note_id \in DOMAIN res
    THEN str(res[r.note_id])
    ELSE r.noteId

\* lines 232-236: the id string the row is reconciled under
RowNoteId(r, res) ==
    IF r.noteId = "" /\ r.note_id # "" /\ r.note_id \in DOMAIN res
    THEN str(res[r.note_id])
    ELSE r.noteId

\* line 261
FrontTarget(a) == IF a.front_field # "" THEN a.front_field ELSE DefaultFrontField

Skip(reason) == [skip |-> reason, update |-> << >>]

Emit(noteId, fields_to_update) ==
    IF Len(fields_to_update) = 0
    THEN Skip("no content")
    ELSE [skip |-> "", update |-> << [id |-> noteId, fields |-> fields_to_update] >>]

\* front/back mode without the `continue` after the front-field SKIP
FrontBackMode_noContinue(noteId, fields, front_html, back_html, a) ==
    LET back == choose_answer_field(fields, a.back_field)
        placed == IF back_html # << >> /\ back.ok
                  THEN DictSet(<< >>, back.field, back_html)
                  ELSE << >>
    IN  IF front_html # << >> /\ FrontTarget(a) \notin Range(fields)
        THEN [skip |-> "front field missing",
              update |-> IF Len(placed) = 0 THEN << >>
                         ELSE << [id |-> noteId, fields |-> placed] >>]
        ELSE IF back_html # << >> /\ ~back.ok
             THEN Skip("back field detect error")
             ELSE Emit(noteId,
                       IF front_html # << >>
                       THEN DictSet(DictSet(<< >>, FrontTarget(a), front_html),
                                    back.field, back_html)
                       ELSE placed)

\* front/back mode that drops an unplaceable front and still writes the back
FrontBackMode_partial(noteId, fields, front_html, back_html, a) ==
    LET back == choose_answer_field(fields, a.back_field)
        after_front == IF front_html # << >> /\ FrontTarget(a) \in Range(fields)
                       THEN DictSet(<< >>, FrontTarget(a), front_html)
                       ELSE << >>
    IN  IF back_html # << >>
        THEN IF ~back.ok
             THEN Skip("back field detect error")
             ELSE Emit(noteId, DictSet(after_front, back.field, back_html))
        ELSE IF Len(after_front) = 0
             THEN Skip("front field missing")
             ELSE Emit(noteId, after_front)

\* lines 258-279: front/back mode
FrontBackMode(noteId, fields, front_html, back_html, a) ==
    LET front_target == FrontTarget(a)
        after_front == IF front_html # << >>
                       THEN DictSet(<< >>, front_target, front_html)
                       ELSE << >>
        back == choose_answer_field(fields, a.back_field)
    IN  IF front_html # << >> /\ front_target \notin Range(fields)
        THEN Skip("front field missing")
        ELSE IF back_html # << >>
             THEN IF ~back.ok
                  THEN Skip("back field detect error")
                  ELSE Emit(noteId, DictSet(after_front, back.field, back_html))
             ELSE Emit(noteId, after_front)

\* legacy mode that takes the --back-field override instead of --field
LegacyMode_backOverride(noteId, fields, ans, a) ==
    LET target == choose_answer_field(fields, a.back_field)
    IN  IF ans = << >>
        THEN Skip("no content")
        ELSE IF ~target.ok
             THEN Skip("field detect error")
             ELSE Emit(noteId, DictSet(<< >>, target.field, ans))

\* lines 281-293: legacy answer_html mode
LegacyMode(noteId, fields, ans, a) ==
    LET target == choose_answer_field(fields, a.field)
    IN  IF ans = << >>
        THEN Skip("no content")
        ELSE IF ~target.ok
             THEN Skip("field detect error")
             ELSE Emit(noteId, DictSet(<< >>, target.field, ans))

\* line 258: which mode the row's content selects
UsesFrontBack(front_html, back_html) == front_html # << >> \/ back_html # << >>

\* the body of the loop for one row: the SKIP reason ("" if none) and the
\* updates appended
Reconcile(r, res, info, a) ==
    LET noteId_s == RowNoteId(r, res)
        noteId == int(noteId_s)
        ans == _nl(r.answer_html)
        front_html == _nl(r.front_html)
        back_html == _nl(r.back_html)
    IN  IF noteId_s = ""
        THEN Skip("no noteId and could not resolve")
        ELSE IF noteId \notin DOMAIN info
             THEN Skip("noteId not found in Anki")
             ELSE IF UsesFrontBack(front_html, back_html)
                  THEN FrontBackMode(noteId, info[noteId], front_html, back_html, a)
                  ELSE LegacyMode(noteId, info[noteId], ans, a)

ReconcileRow ==
    /\ pc = "reconcile"
    /\ i <= Len(rows)
    /\ LET o == Reconcile(rows[i], resolved, info_map, args)
       IN  /\ skipped' = IF o.skip # "" THEN skipped + 1 ELSE skipped
           /\ out' = IF o.skip # ""
                     THEN Append(out, Line("SKIP", i, o.skip, 0))
                     ELSE out
           /\ updates' = updates \o o.update
           /\ update_row' = update_row \o [k \in DOMAIN o.update |-> i]
    /\ i' = i + 1
    /\ UNCHANGED <<extract_vars, escape_vars>>
    /\ UNCHANGED <<rows, args, anki, pc, ri, mapping, resolved, note_ids,
                   info_map, ai, requests, preview>>

----------------------------------------------------------------------------
(* main: summary, preview and apply (lines 302-322) *)

\* lines 302-303
Summary ==
    /\ pc = "reconcile"
    /\ i > Len(rows)
    /\ out' = out \o << Line("Prepared updates", 0, "", Len(updates)),
                        Line("Skipped", 0, "", skipped) >>
    /\ pc' = "summary"
    /\ UNCHANGED <<extract_vars, escape_vars>>
    /\ UNCHANGED <<rows, args, anki, ri, mapping, resolved, note_ids, info_map,
                   i, updates, update_row, skipped, ai, requests, preview>>

\* preview that escapes the newlines before it truncates
Snippet_escapeFirst(value) ==
    SubSeq(EscapeNl(value), 1, Min(PreviewWidth, Len(EscapeNl(value))))

\* line 310
Snippet(value) ==
    EscapeNl(SubSeq(value, 1, Min(PreviewWidth, Len(value))))

\* lines 307-311 for one update
PreviewLines(u) ==
    [k \in DOMAIN u.fields |->
        [noteId |-> u.id, field |-> u.fields[k].name,
         snippet |-> Snippet(u.fields[k].value)]]

\* line 306
PreviewSample(us) == SubSeq(us, 1, Min(PreviewCount, Len(us)))

RECURSIVE Flatten(_)
Flatten(ss) == IF Len(ss) = 0 THEN << >> ELSE ss[1] \o Flatten(Tail(ss))

\* lines 305-313
DryRun ==
    /\ pc = "summary"
    /\ args.dry_run
    /\ preview' = Flatten([k \in DOMAIN PreviewSample(updates) |->
                              PreviewLines(PreviewSample(updates)[k])])
    /\ pc' = "done"
    /\ UNCHANGED <<extract_vars, escape_vars>>
    /\ UNCHANGED <<rows, args, anki, ri, mapping, resolved, note_ids, info_map,
                   i, updates, update_row, skipped, ai, requests, out>>

\* lines 315-317
NothingToUpdate ==
    /\ pc = "summary"
    /\ ~args.dry_run
    /\ Len(updates) = 0
    /\ pc' = "done"
    /\ UNCHANGED <<extract_vars, escape_vars>>
    /\ UNCHANGED <<rows, args, anki, ri, mapping, resolved, note_ids, info_map,
                   i, updates, update_row, skipped, ai, requests, out, preview>>

\* lines 44-45: AnkiConnect answers a rejected request with a non-null error
Rejected(note) == note.id \in anki.rejects

\* lines 319-320, one iteration: the request is sent; a rejection raises
\* RuntimeError out of anki_request, and nothing in main catches it
ApplyNote ==
    /\ pc = "summary"
    /\ ~args.dry_run
    /\ Len(updates) > 0
    /\ ai <= Len(updates)
    /\ requests' = Append(requests, Request("updateNoteFields", "", 0, updates[ai]))
    /\ IF Rejected(updates[ai])
       THEN pc' = "raised" /\ ai' = ai
       ELSE pc' = pc /\ ai' = ai + 1
    /\ UNCHANGED <<extract_vars, escape_vars>>
    /\ UNCHANGED <<rows, args, anki, ri, mapping, resolved, note_ids, info_map,
                   i, updates, update_row, skipped, out, preview>>

\* line 322
Complete ==
    /\ pc = "summary"
    /\ ~args.dry_run
    /\ Len(updates) > 0
    /\ ai > Len(updates)
    /\ pc' = "done"
    /\ UNCHANGED <<extract_vars, escape_vars>>
    /\ UNCHANGED <<rows, args, anki, ri, mapping, resolved, note_ids, info_map,
                   i, updates, update_row, skipped, ai, requests, out, preview>>

Next ==
    \/ ResolveRow
    \/ FetchInfo
    \/ ReconcileRow
    \/ Summary
    \/ DryRun
    \/ NothingToUpdate
    \/ ApplyNote
    \/ Complete

----------------------------------------------------------------------------
(* Inputs *)

EmptyMap == [x \in {} |-> 0]

SeqsUpTo(S, n) == UNION {[1..k -> S] : k \in 0..n}

InjectiveSeqs(S, n) ==
    {s \in UNION {[1..k -> S] : k \in 1..n} :
        \A a, b \in DOMAIN s : a # b => s[a] # s[b]}

Row(note_id, noteId, front_html, back_html, answer_html) ==
    [note_id |-> note_id, noteId |-> noteId, front_html |-> front_html,
     back_html |-> back_html, answer_html |-> answer_html]

Args(front_field, back_field, field, dry_run) ==
    [front_field |-> front_field, back_field |-> back_field, field |-> field,
     dry_run |-> dry_run]

Anki(find, notes, rejects) == [find |-> find, notes |-> notes, rejects |-> rejects]

\* payload columns as they stand in the TSV (newlines escaped by the writer)
FrontRaw == << "f" >>
BackRaw == << "b", "\\", "n", "c" >>
BackLongRaw == Rep("b", PreviewWidth - 1) \o << "\\", "n", "c", "\\", "n", "d" >>
AnswerRaw == << "a", "\\", "n" >>

\* the extractor and the payload path at rest
IdleExtract ==
    /\ html = << >>
    /\ note_map = EmptyMap
    /\ xpc = "idle"
    /\ headings = << >>
    /\ hi = 1
    /\ cur_note_id = << >>
    /\ out_rows = << >>
    /\ row_heading = << >>

IdleEscape ==
    /\ payload = << >>
    /\ cell = << >>
    /\ readback = << >>
    /\ epc = "idle"

\* main() after the TSV was read and the version check passed (lines 168-180)
InitFrom(RowSeqs, ArgSet, AnkiSet) ==
    /\ IdleExtract
    /\ IdleEscape
    /\ rows \in RowSeqs
    /\ args \in ArgSet
    /\ anki \in AnkiSet
    /\ pc = "resolve"
    /\ ri = 1
    /\ mapping = EmptyMap
    /\ resolved = EmptyMap
    /\ note_ids = << >>
    /\ info_map = EmptyMap
    /\ i = 1
    /\ updates = << >>
    /\ update_row = << >>
    /\ skipped = 0
    /\ ai = 1
    /\ requests = << >>
    /\ out = << >>
    /\ preview = << >>

\* Rows of one canonical note with every identity and content combination,
\* against one existing note whose field list and overrides vary.
Contents ==
    {<<f, b, a>> : f \in {<< >>, FrontRaw}, b \in {<< >>, BackRaw},
                   a \in {<< >>, AnswerRaw}}

GenRows ==
    {Row("N1", n, c[1], c[2], c[3]) : n \in {"", "1", "2"}, c \in Contents}

GenArgs ==
    {Args(o[1], o[2], o[3], d) :
        o \in {<<"", "", "">>, <<"Question", "Back", "Answer">>}, d \in BOOLEAN}

GenAnki ==
    {Anki([k \in {"N1"} |-> f], (1 :> fl), rj) :
        f \in {<< >>, <<1>>},
        fl \in {<<"Front", "Back">>, <<"Question", "Front">>,
                <<"Front", "Question", "Explanation">>},
        rj \in {{}, {1}}}

Init == InitFrom(SeqsUpTo(GenRows, MaxRows), GenArgs, GenAnki)

Spec == Init /\ [][Next]_vars

\* One row with a supplied id against every field list of up to MaxFields
\* names and every override.
FieldNames == {"Front", "Question", "Explanation", "Back", "Answer"}

FieldsRows == {<< Row("N1", "1", c[1], c[2], c[3]) >> : c \in Contents}

FieldsArgs ==
    {Args(ff, bf, f, d) : ff \in {"", "Question", "Back"},
                          bf \in {"", "Back", "Question", "Extra"},
                          f \in {"", "Answer"}, d \in BOOLEAN}

FieldsAnki ==
    {Anki([k \in {"N1"} |-> << >>], (1 :> fl), rj) :
        fl \in InjectiveSeqs(FieldNames, MaxFields), rj \in {{}, {1}}}

InitFields == InitFrom(FieldsRows, FieldsArgs, FieldsAnki)

SpecFields == InitFields /\ [][Next]_vars

\* Rows of up to two canonical notes, with and without supplied ids, against
\* every findNotes answer of zero, one or two matches.
IdentityRows ==
    {Row(k, n, FrontRaw, << >>, << >>) : k \in {"", "N1", "N2"}, n \in {"", "1", "2"}}

IdentityArgs == {Args("", "", "", d) : d \in BOOLEAN}

IdentityAnki ==
    {Anki(("N1" :> f1) @@ ("N2" :> f2), [n \in present |-> <<"Front", "Back">>], rj) :
        f1 \in {<< >>, <<1>>, <<2, 1>>}, f2 \in {<< >>, <<2>>, <<1, 2>>},
        present \in {{1, 2}, {1}}, rj \in {{}, {1}}}

InitIdentity == InitFrom(SeqsUpTo(IdentityRows, MaxRows), IdentityArgs, IdentityAnki)

SpecIdentity == InitIdentity /\ [][Next]_vars

\* Up to MaxApplyRows rows, row k carrying the supplied id k, against every
\* set of notes whose update the collection rejects.
ApplyRowSeqs ==
    {rs \in SeqsUpTo({Row("", str(k), FrontRaw, b, << >>) :
                         k \in 1..MaxApplyRows, b \in {<< >>, BackLongRaw}},
                     MaxApplyRows) :
        \A k \in DOMAIN rs : rs[k].noteId = str(k)}

ApplyArgs == {Args("", "", "", d) : d \in BOOLEAN}

ApplyAnki ==
    {Anki([k \in {"N1"} |-> << >>], [n \in 1..MaxApplyRows |-> <<"Front", "Back">>], rj) :
        rj \in SUBSET (1..MaxApplyRows)}

InitApply == InitFrom(ApplyRowSeqs, ApplyArgs, ApplyAnki)

SpecApply == InitApply /\ [][Next]_vars

----------------------------------------------------------------------------
(* Properties *)

\* rows the reconciliation loop has finished
Processed == 1..(i - 1)

UpdatesOf(k) == {j \in DOMAIN update_row : update_row[j] = k}

SkipsOf(k) == {j \in DOMAIN out : out[j].kind = "SKIP" /\ out[j].row = k}

SkippedFor(k, reason) == \E j \in SkipsOf(k) : out[j].reason = reason

Lookups(k) ==
    {j \in DOMAIN requests : requests[j].action = "findNotes" /\ requests[j].row = k}

\* the target id of a row: the supplied noteId, else the resolver's answer
\* for its note_id, else 0
TargetId(k) ==
    IF rows[k].noteId # "" THEN int(rows[k].noteId)
    ELSE IF rows[k].note_id # "" /\ rows[k].note_id \in DOMAIN resolved
         THEN resolved[rows[k].note_id]
         ELSE 0

HasTarget(k) == TargetId(k) \in DOMAIN anki.notes

TargetFields(k) == Range(anki.notes[TargetId(k)])

FrontOf(k) == _nl(rows[k].front_html)
BackOf(k) == _nl(rows[k].back_html)
AnswerOf(k) == _nl(rows[k].answer_html)

FrontName == IF args.front_field # "" THEN args.front_field ELSE "Front"

\* C1: every row the reconciliation loop has processed produced exactly one
\* outcome, one prepared update or one SKIP line counted in `skipped`, so
\* len(updates) + skipped equals the number of rows processed.
C1_OneOutcomePerRow ==
    /\ Len(updates) + skipped = i - 1
    /\ skipped = Cardinality({j \in DOMAIN out : out[j].kind = "SKIP"})
    /\ \A k \in Processed : Cardinality(UpdatesOf(k)) + Cardinality(SkipsOf(k)) = 1

C1_Witness ==
    /\ pc = "summary"
    /\ Len(rows) = 2
    /\ Len(updates) = 1
    /\ skipped = 1
    /\ SkippedFor(1, "front field missing")

\* C2: a processed row with an existing target and a non-empty front_html
\* whose front field name is not among the target's fields has no update at
\* all and a "front field missing" SKIP, whatever its back_html; and a row
\* whose non-empty back_html cannot be placed has no update either, so no
\* front-only update stands in for it.
C2_AllOrNothing ==
    \A k \in Processed :
        HasTarget(k) =>
            /\ (FrontOf(k) # << >> /\ FrontName \notin TargetFields(k))
                  => UpdatesOf(k) = {} /\ SkippedFor(k, "front field missing")
            /\ (BackOf(k) # << >>
                /\ ~choose_answer_field(anki.notes[TargetId(k)], args.back_field).ok)
                  => UpdatesOf(k) = {}

C2_Witness ==
    \E k \in Processed :
        /\ HasTarget(k)
        /\ FrontOf(k) # << >> /\ BackOf(k) # << >>
        /\ FrontName \notin TargetFields(k)
        /\ choose_answer_field(anki.notes[TargetId(k)], args.back_field).ok
        /\ SkippedFor(k, "front field missing")
        /\ UpdatesOf(k) = {}

\* C10 as stated: a processed row with an existing target whose front_html
\* and back_html are both empty is skipped with "no content" and has no
\* update, whatever its answer_html.
C10_Original ==
    \A k \in Processed :
        (HasTarget(k) /\ FrontOf(k) = << >> /\ BackOf(k) = << >>)
            => UpdatesOf(k) = {} /\ SkippedFor(k, "no content")

\* C10 amended: such a row is skipped with "no content" exactly when its
\* answer_html is empty too; with a non-empty answer_html the legacy mode
\* writes answer_html alone to the field picked for the --field override
\* (override, candidate list, second of two fields), or skips the row with
\* "field detect error" when no field can be picked.
C10_LegacyOrNoContent ==
    \A k \in Processed :
        (HasTarget(k) /\ FrontOf(k) = << >> /\ BackOf(k) = << >>) =>
            LET target == choose_answer_field(anki.notes[TargetId(k)], args.field)
            IN  IF AnswerOf(k) = << >>
                THEN UpdatesOf(k) = {} /\ SkippedFor(k, "no content")
                ELSE IF target.ok
                     THEN /\ UpdatesOf(k) # {}
                          /\ \A j \in UpdatesOf(k) :
                            updates[j] = [id |-> TargetId(k),
                                          fields |-> << [name |-> target.field,
                                                         value |-> AnswerOf(k)] >>]
                     ELSE UpdatesOf(k) = {} /\ SkippedFor(k, "field detect error")

C10_Witness ==
    \E k \in Processed :
        /\ HasTarget(k)
        /\ FrontOf(k) = << >> /\ BackOf(k) = << >> /\ AnswerOf(k) # << >>
        /\ \E j \in UpdatesOf(k) : updates[j].fields[1].value = AnswerOf(k)
        /\ \E m \in Processed :
              /\ HasTarget(m)
              /\ FrontOf(m) = << >> /\ BackOf(m) = << >> /\ AnswerOf(m) = << >>
              /\ SkippedFor(m, "no content")

\* positions in CANDIDATE_ANSWER_FIELDS of the names a field list carries
CandidatesOn(fl) ==
    {c \in DOMAIN CANDIDATE_ANSWER_FIELDS : CANDIDATE_ANSWER_FIELDS[c] \in Range(fl)}

\* the update of row k writes the row's back_html to the field `name`
BackWrittenTo(k, name) ==
    \E j \in UpdatesOf(k) : \E e \in DOMAIN updates[j].fields :
        updates[j].fields[e] = [name |-> name, value |-> BackOf(k)]

BackFailed(k) == UpdatesOf(k) = {} /\ SkippedFor(k, "back field detect error")

\* C3: for a processed row whose non-empty back_html reaches the back
\* placement, the field written is (a) the --back-field override when it is
\* on the target, the row being skipped when it is not; (b) without override,
\* the earliest name of CANDIDATE_ANSWER_FIELDS found on the target; (c) with
\* no candidate on a two-field target, the target's second field; (d) in
\* every other case nothing is written and the row is skipped.
C3_BackFieldPriority ==
    \A k \in Processed :
        (/\ HasTarget(k)
         /\ BackOf(k) # << >>
         /\ (FrontOf(k) = << >> \/ FrontName \in TargetFields(k))) =>
            LET fl == anki.notes[TargetId(k)]
                first == CHOOSE c \in CandidatesOn(fl) :
                            \A d \in CandidatesOn(fl) : c <= d
            IN  IF args.back_field # ""
                THEN IF args.back_field \in Range(fl)
                     THEN BackWrittenTo(k, args.back_field)
                     ELSE BackFailed(k)
                ELSE IF CandidatesOn(fl) # {}
                     THEN BackWrittenTo(k, CANDIDATE_ANSWER_FIELDS[first])
                     ELSE IF Len(fl) = 2
                          THEN BackWrittenTo(k, fl[2])
                          ELSE BackFailed(k)

C3_Witness ==
    \E k \in Processed :
        /\ HasTarget(k)
        /\ anki.notes[TargetId(k)] = << "Front", "Question", "Explanation" >>
        /\ args.back_field = ""
        /\ FrontOf(k) # << >> /\ BackOf(k) # << >>
        /\ FrontName = "Front"
        /\ BackFailed(k)

\* C4 as stated: the update of a row with non-empty front_html and back_html
\* has exactly two entries, the front field holding front_html and another
\* field holding back_html; a front-only or back-only row has one entry
\* holding its payload.
C4_ExactlyTheFieldsWritten ==
    \A k \in Processed : \A j \in UpdatesOf(k) :
        LET f == updates[j].fields
        IN  /\ (FrontOf(k) # << >> /\ BackOf(k) # << >>) =>
                  /\ Len(f) = 2
                  /\ f[1] = [name |-> FrontName, value |-> FrontOf(k)]
                  /\ f[2].value = BackOf(k)
                  /\ f[2].name \in TargetFields(k) \ {FrontName}
            /\ (FrontOf(k) # << >> /\ BackOf(k) = << >>) =>
                  f = << [name |-> FrontName, value |-> FrontOf(k)] >>
            /\ (FrontOf(k) = << >> /\ BackOf(k) # << >>) =>
                  Len(f) = 1 /\ f[1].value = BackOf(k)

UpdateRequests ==
    {q \in DOMAIN requests : requests[q].action = "updateNoteFields"}

\* C5 as stated: once the apply step has ended, every prepared update the
\* target would accept has been requested exactly once, wherever in the
\* sequence a rejected update lies.
C5_RejectionIsPerNote ==
    (pc \in {"done", "raised"} /\ ~args.dry_run) =>
        \A j \in DOMAIN updates :
            ~Rejected(updates[j]) =>
                Cardinality({q \in UpdateRequests : requests[q].note = updates[j]}) = 1

\* C6: with --dry-run no updateNoteFields request is ever sent; every DRY RUN
\* line shows a field of one of the first 3 prepared updates, its value cut
\* to its first 120 characters and only then newline-escaped (so the line
\* holds no raw newline and unescapes to that prefix); and when the preview
\* is complete every field of the first 3 updates has its line.
C6_DryRunPreview ==
    /\ args.dry_run => UpdateRequests = {}
    /\ \A l \in DOMAIN preview :
          /\ "\n" \notin Range(preview[l].snippet)
          /\ \E j \in DOMAIN updates : \E e \in DOMAIN updates[j].fields :
                LET v == updates[j].fields[e].value
                IN  /\ j <= 3
                    /\ preview[l].noteId = updates[j].id
                    /\ preview[l].field = updates[j].fields[e].name
                    /\ _nl(preview[l].snippet) =
                          SubSeq(v, 1, IF Len(v) < 120 THEN Len(v) ELSE 120)
    /\ (pc = "done" /\ args.dry_run) =>
          \A j \in DOMAIN updates : \A e \in DOMAIN updates[j].fields :
              j <= 3 => \E l \in DOMAIN preview :
                           /\ preview[l].noteId = updates[j].id
                           /\ preview[l].field = updates[j].fields[e].name

C6_Witness ==
    /\ pc = "done"
    /\ args.dry_run
    /\ Len(updates) = 4
    /\ \E l \in DOMAIN preview : Len(preview[l].snippet) = 121
    /\ \A l \in DOMAIN preview : preview[l].noteId # updates[4].id

FindRequests == {q \in DOMAIN requests : requests[q].action = "findNotes"}

WarnedFor(k) == \E j \in DOMAIN out : out[j].kind = "WARNING" /\ out[j].row = k

\* C7: a row carrying a noteId causes no findNotes lookup, its supplied id
\* is among the ids fetched, and the update prepared for it (or the SKIP for
\* a note the collection lacks) is under the supplied id, whatever the
\* resolver mapped its note_id to.
C7_SuppliedIdKept ==
    \A k \in DOMAIN rows :
        rows[k].noteId # "" =>
            /\ Lookups(k) = {}
            /\ pc # "resolve" => int(rows[k].noteId) \in Range(note_ids)
            /\ \A j \in UpdatesOf(k) : updates[j].id = int(rows[k].noteId)
            /\ (k \in Processed /\ int(rows[k].noteId) \notin DOMAIN anki.notes)
                  => SkippedFor(k, "noteId not found in Anki")

C7_Witness ==
    \E k \in Processed :
        /\ rows[k].noteId # ""
        /\ rows[k].note_id \in DOMAIN resolved
        /\ resolved[rows[k].note_id] # int(rows[k].noteId)
        /\ \E j \in UpdatesOf(k) : updates[j].id = int(rows[k].noteId)

\* C8 as stated: at most one findNotes lookup is issued per distinct note_id.
C8_Memoized ==
    \A p, q \in FindRequests : requests[p].query = requests[q].query => p = q

\* C8 amended: the resolver issues exactly one findNotes lookup, for the
\* row's own note_id, for every row it has passed that has a non-empty
\* note_id and an empty noteId, and none for any other row; rows sharing a
\* note_id are looked up once each.
C8_OneLookupPerRow ==
    /\ \A k \in DOMAIN rows :
          Cardinality(Lookups(k)) =
              IF k < ri /\ rows[k].note_id # "" /\ rows[k].noteId = "" THEN 1 ELSE 0
    /\ \A q \in FindRequests : requests[q].query = rows[requests[q].row].note_id

C8_Witness ==
    \E p, q \in FindRequests :
        /\ p < q
        /\ requests[p].query = requests[q].query
        /\ Len(anki.find[requests[p].query]) > 0

\* C9: for a row with empty noteId and non-empty note_id that the resolver
\* has passed: with no match its note_id stays unmapped and the row is later
\* skipped for lack of a noteId, never updated; with matches the first id
\* returned is the one mapped and used for the row's update; and a WARNING
\* line is printed exactly when there are several matches.
C9_MatchPolicy ==
    \A k \in 1..(ri - 1) :
        (rows[k].noteId = "" /\ rows[k].note_id # "") =>
            LET found == anki.find[rows[k].note_id]
            IN  /\ Len(found) = 0 =>
                      /\ rows[k].note_id \notin DOMAIN mapping
                      /\ k \in Processed =>
                            /\ UpdatesOf(k) = {}
                            /\ SkippedFor(k, "no noteId and could not resolve")
                /\ Len(found) > 0 =>
                      /\ rows[k].note_id \in DOMAIN mapping
                      /\ mapping[rows[k].note_id] = found[1]
                      /\ \A j \in UpdatesOf(k) : updates[j].id = found[1]
                /\ WarnedFor(k) <=> Len(found) > 1

C9_Witness ==
    /\ pc = "summary"
    /\ Len(rows) = 2
    /\ rows[1].noteId = "" /\ rows[2].noteId = ""
    /\ rows[1].note_id # rows[2].note_id
    /\ WarnedFor(1)
    /\ Lookups(2) # {}
    /\ \E j \in UpdatesOf(1) : updates[j].id = anki.find[rows[1].note_id][1]
    /\ \E j \in UpdatesOf(2) : updates[j].id = anki.find[rows[2].note_id][1]

----------------------------------------------------------------------------
(* The payload path: export/cnsf_to_import_tsv.py writes a cell with        *)
(* _tsv_safe, update_notes_from_tsv.py reads it back through _nl.           *)

MaxLen == 4

\* the updater at rest
IdleUpdate ==
    /\ rows = << >>
    /\ args = Args("", "", "", FALSE)
    /\ anki = Anki(EmptyMap, EmptyMap, {})
    /\ pc = "idle"
    /\ ri = 1
    /\ mapping = EmptyMap
    /\ resolved = EmptyMap
    /\ note_ids = << >>
    /\ info_map = EmptyMap
    /\ i = 1
    /\ updates = << >>
    /\ update_row = << >>
    /\ skipped = 0
    /\ ai = 1
    /\ requests = << >>
    /\ out = << >>
    /\ preview = << >>

\* str.replace(old, new): non-overlapping occurrences, scanned left to right
RECURSIVE Replace(_, _, _)
Replace(s, old, new) ==
    IF Len(s) < Len(old) THEN s
    ELSE IF SubSeq(s, 1, Len(old)) = old
         THEN new \o Replace(SubSeq(s, Len(old) + 1, Len(s)), old, new)
         ELSE << s[1] >> \o Replace(Tail(s), old, new)

\* lines 138-143 of cnsf_to_import_tsv.py
_tsv_safe(v) ==
    Replace(Replace(Replace(Replace(v,
        << "\r", "\n" >>, << "\n" >>),
        << "\r" >>, << "\n" >>),
        << "\t" >>, << "\\", "t" >>),
        << "\n" >>, << "\\", "n" >>)

PayloadChars == {"\n", "\\", "n", "a"}

InitEscape ==
    /\ IdleUpdate
    /\ IdleExtract
    /\ payload \in SeqsUpTo(PayloadChars, MaxLen)
    /\ cell = << >>
    /\ readback = << >>
    /\ epc = "rendered"

\* write_tsv: the row's front_html / back_html cell (lines 146-147); the csv
\* layer stores and returns a cell without tab, CR or newline unchanged
WriteCell ==
    /\ epc = "rendered"
    /\ cell' = _tsv_safe(payload)
    /\ epc' = "written"
    /\ UNCHANGED <<update_vars, extract_vars, payload, readback>>

\* update_notes_from_tsv.main, lines 254-255
ReadCell ==
    /\ epc = "written"
    /\ readback' = _nl(cell)
    /\ epc' = "read"
    /\ UNCHANGED <<update_vars, extract_vars, payload, cell>>

NextEscape == WriteCell \/ ReadCell

SpecEscape == InitEscape /\ [][NextEscape]_vars

HasNewline(s) == \E k \in DOMAIN s : s[k] = "\n"

HasBackslashN(s) == \E k \in 1..(Len(s) - 1) : s[k] = "\\" /\ s[k + 1] = "n"

\* C13: a payload written by _tsv_safe and read back through _nl is the
\* original payload, both when it holds embedded newlines and when it holds
\* a literal backslash followed by the letter n.
C13_EscapeRoundTrip ==
    epc = "read" =>
        /\ HasNewline(payload) => readback = payload
        /\ HasBackslashN(payload) => readback = payload

----------------------------------------------------------------------------
(* tools/anki/html_frontback_to_tsv.py.  The document is a sequence of      *)
(* units: an opening or closing heading tag, another tag, an entity, a      *)
(* whitespace or a word.  An offset counts units; a heading title is the    *)
(* sequence of the units left after decoding.                               *)

MaxBlocks == 4

Tags == {"<h2>", "</h2>", "<h3>", "</h3>", "<hr>", "<b>", "</b>"}

Whitespace == {" "}

\* lines 40-49, unit by unit
_unescape_basic(s) ==
    [k \in DOMAIN s |-> IF s[k] = "&nbsp;" THEN " "
                        ELSE IF s[k] = "&amp;" THEN "&"
                        ELSE s[k]]

\* str.strip()
RECURSIVE strip(_)
strip(s) ==
    IF Len(s) = 0 THEN s
    ELSE IF s[1] \in Whitespace THEN strip(Tail(s))
         ELSE IF s[Len(s)] \in Whitespace THEN strip(SubSeq(s, 1, Len(s) - 1))
              ELSE s

\* re.sub(r"\s+", " ", t)
RECURSIVE CollapseSpaces(_)
CollapseSpaces(s) ==
    IF Len(s) < 2 THEN [k \in DOMAIN s |-> IF s[k] \in Whitespace THEN " " ELSE s[k]]
    ELSE IF s[1] \in Whitespace /\ s[2] \in Whitespace
         THEN CollapseSpaces(Tail(s))
         ELSE << (IF s[1] \in Whitespace THEN " " ELSE s[1]) >> \o CollapseSpaces(Tail(s))

IsText(u) == u \notin Tags

\* lines 34-38
_strip_tags(s) == strip(CollapseSpaces(SelectSeq(s, IsText)))

\* str.upper() on the words the model uses
upper(s) ==
    [k \in DOMAIN s |-> IF s[k] = "after_back" THEN "AFTER_BACK"
                        ELSE IF s[k] = "After_Front" THEN "AFTER_FRONT"
                        ELSE s[k]]

SetMin(S) == CHOOSE m \in S : \A n \in S : m <= n

\* H2_RE / H3_RE .finditer: the non-overlapping matches of an opening tag,
\* the shortest run of units after it, and the closing tag (lines 29-30,
\* 58-63); start and end are 0-based offsets as in m.start(), m.end()
RECURSIVE FindAll(_, _, _, _, _)
FindAll(h, from, open, close, level) ==
    LET opens == {p \in from..Len(h) :
                     h[p] = open /\ \E q \in (p + 1)..Len(h) : h[q] = close}
    IN  IF opens = {} THEN << >>
        ELSE LET p == SetMin(opens)
                 q == SetMin({c \in (p + 1)..Len(h) : h[c] = close})
             IN  << [level |-> level,
                     title |-> _strip_tags(_unescape_basic(SubSeq(h, p + 1, q - 1))),
                     start |-> p - 1,
                     end |-> q] >>
                 \o FindAll(h, q + 1, open, close, level)

\* line 64: items.sort(key = start); no two matches start at the same offset
SortByStart(items) ==
    [k \in 1..Len(items) |->
        items[CHOOSE a \in DOMAIN items :
                 Cardinality({b \in DOMAIN items : items[b].start < items[a].start})
                     = k - 1]]

\* lines 51-65
_find_heading_positions(h) ==
    SortByStart(FindAll(h, 1, "<h2>", "</h2>", "h2")
                \o FindAll(h, 1, "<h3>", "</h3>", "h3"))

\* a slice that runs to the next h2, passing over h3 headings
_slice_section_toNextH2(h, hs, idx_start) ==
    LET later == {j \in (idx_start + 1)..Len(hs) : hs[j].level = "h2"}
        end == IF later # {} THEN hs[SetMin(later)].start ELSE Len(h)
    IN  strip(SubSeq(h, hs[idx_start].end + 1, end))

\* lines 67-77: html[start:end].strip(), end at the next heading of any level
_slice_section(h, hs, idx_start) ==
    LET start == hs[idx_start].end
        end == IF idx_start + 1 <= Len(hs) THEN hs[idx_start + 1].start ELSE Len(h)
    IN  strip(SubSeq(h, start + 1, end))

\* --front-field / --back-field defaults (lines 99-100)
FrontFieldArg == "Front"
BackFieldArg == "Back"

Labels == {<< "AFTER_FRONT" >>, << "AFTER_BACK" >>}

\* a walk in which an H2 without text leaves the current note in place
NoteIdAfterH2_keep(cur, title) == IF title # << >> THEN title ELSE cur

\* lines 113-115: the current note after an H2
NoteIdAfterH2(cur, title) == title

\* lines 103-106
Scan ==
    /\ xpc = "start"
    /\ headings' = _find_heading_positions(html)
    /\ xpc' = "walk"
    /\ UNCHANGED <<update_vars, escape_vars, html, note_map, hi, cur_note_id,
                   out_rows, row_heading>>

\* one iteration of the loop of lines 112-140
WalkHeading ==
    /\ xpc = "walk"
    /\ hi <= Len(headings)
    /\ LET h == headings[hi]
           title_norm == upper(strip(h.title))
           section_html == _slice_section(html, headings, hi)
       IN  IF h.level = "h2"
           THEN /\ cur_note_id' = NoteIdAfterH2(cur_note_id, h.title)
                /\ UNCHANGED <<out_rows, row_heading>>
           ELSE /\ cur_note_id' = cur_note_id
                /\ IF \/ h.level # "h3"
                      \/ cur_note_id = << >>
                      \/ title_norm \notin Labels
                      \/ section_html = << >>
                   THEN UNCHANGED <<out_rows, row_heading>>
                   ELSE /\ out_rows' = Append(out_rows,
                              [note_id |-> cur_note_id,
                               noteId |-> IF cur_note_id \in DOMAIN note_map
                                          THEN note_map[cur_note_id] ELSE "",
                               prompt |-> "",
                               field |-> IF title_norm = << "AFTER_FRONT" >>
                                         THEN FrontFieldArg ELSE BackFieldArg,
                               answer_html |-> section_html])
                        /\ row_heading' = Append(row_heading, hi)
    /\ hi' = hi + 1
    /\ UNCHANGED <<update_vars, escape_vars, html, note_map, xpc, headings>>

\* lines 142-155: the collected rows are written
WriteRows ==
    /\ xpc = "walk"
    /\ hi > Len(headings)
    /\ xpc' = "done"
    /\ UNCHANGED <<update_vars, escape_vars, html, note_map, headings, hi,
                   cur_note_id, out_rows, row_heading>>

NextExtract == Scan \/ WalkHeading \/ WriteRows

\* documents: up to MaxBlocks headings, each followed by its content
H2Block(inner) == << "<h2>" >> \o inner \o << "</h2>" >>

H3Block(inner, body) == << "<h3>" >> \o inner \o << "</h3>" >> \o body

Blocks ==
    { H2Block(<< "N1" >>),
      H2Block(<< " ", "<b>", "N2", "</b>" >>),
      H2Block(<< "&nbsp;" >>),
      H3Block(<< "AFTER_FRONT" >>, << " ", "x" >>),
      H3Block(<< "AFTER_FRONT" >>, << " " >>),
      H3Block(<< "after_back" >>, << "y" >>),
      H3Block(<< "AFTER_BACK" >>, << "y", "<hr>", " " >>),
      H3Block(<< "Notes" >>, << "z" >>) }

RECURSIVE Concat(_)
Concat(ss) == IF Len(ss) = 0 THEN << >> ELSE ss[1] \o Concat(Tail(ss))

Documents == {Concat(bs) : bs \in SeqsUpTo(Blocks, MaxBlocks)}

NoteMaps == {EmptyMap, (<< "N1" >> :> "1")}

InitExtract ==
    /\ IdleUpdate
    /\ IdleEscape
    /\ html \in Documents
    /\ note_map \in NoteMaps
    /\ xpc = "start"
    /\ headings = << >>
    /\ hi = 1
    /\ cur_note_id = << >>
    /\ out_rows = << >>
    /\ row_heading = << >>

SpecExtract == InitExtract /\ [][NextExtract]_vars

SetMax(S) == CHOOSE m \in S : \A n \in S : m >= n

\* headings walked so far
Walked == 1..(hi - 1)

H2Before(k) == {a \in 1..(k - 1) : headings[a].level = "h2"}

\* the nearest H2 before heading k
Owner(k) == SetMax(H2Before(k))

HasNote(k) == H2Before(k) # {} /\ headings[Owner(k)].title # << >>

IsFrontLabel(k) ==
    headings[k].level = "h3" /\ upper(strip(headings[k].title)) = << "AFTER_FRONT" >>

IsBackLabel(k) ==
    headings[k].level = "h3" /\ upper(strip(headings[k].title)) = << "AFTER_BACK" >>

RowsFor(k) == {j \in DOMAIN row_heading : row_heading[j] = k}

\* the units after heading k up to the next opening heading tag of either
\* level, or the document end, trimmed
ToNextHeading(k) ==
    LET opens == {p \in (headings[k].end + 1)..Len(html) : html[p] \in {"<h2>", "<h3>"}}
        stop == IF opens # {} THEN SetMin(opens) - 1 ELSE Len(html)
    IN  strip(SubSeq(html, headings[k].end + 1, stop))

\* C11: the scan finds every H2, in document order and without overlap;
\* every collected row carries the non-empty text of the nearest H2 before
\* its H3, rows follow document order, and a labelled H3 with no H2 before it
\* or whose nearest H2 has empty text yields no row, so no row has an empty
\* note_id and nothing after an empty H2 goes to an earlier note.
C11_SectionsByH2 ==
    /\ xpc # "start" =>
          /\ {p \in DOMAIN html : html[p] = "<h2>"}
                = {headings[k].start + 1 : k \in {a \in DOMAIN headings :
                                                     headings[a].level = "h2"}}
          /\ \A k \in 1..(Len(headings) - 1) : headings[k].end <= headings[k + 1].start
    /\ \A j \in DOMAIN out_rows :
          /\ HasNote(row_heading[j])
          /\ out_rows[j].note_id = headings[Owner(row_heading[j])].title
          /\ out_rows[j].note_id # << >>
    /\ \A j \in 1..(Len(row_heading) - 1) : row_heading[j] < row_heading[j + 1]
    /\ \A k \in Walked :
          ((IsFrontLabel(k) \/ IsBackLabel(k)) /\ ~HasNote(k)) => RowsFor(k) = {}

C11_Witness ==
    /\ xpc = "done"
    /\ \E k \in Walked :
          /\ IsBackLabel(k)
          /\ ToNextHeading(k) # << >>
          /\ H2Before(k) # {}
          /\ headings[Owner(k)].title = << >>
          /\ \E a \in H2Before(k) : headings[a].title # << >>
          /\ RowsFor(k) = {}
    /\ \E j \in DOMAIN out_rows : out_rows[j].note_id = << "N1" >>

\* C12 as stated: in the section of an H2 with text (up to the next H2 or
\* the document end) that holds one AFTER_FRONT and, after it, one
\* AFTER_BACK, the front content is what lies between the end of the front
\* marker and the start of the back marker, and the back content what lies
\* between the end of the back marker and the first horizontal rule after
\* it in the section, or the section end; both trimmed.
C12_FrontBackExtraction ==
    xpc = "done" =>
        \A a \in DOMAIN headings :
            (headings[a].level = "h2" /\ headings[a].title # << >>) =>
                LET members == {k \in (a + 1)..Len(headings) : Owner(k) = a}
                    fronts == {k \in members : IsFrontLabel(k)}
                    backs == {k \in members : IsBackLabel(k)}
                    f == SetMin(fronts)
                    b == SetMin(backs)
                    nextH2 == {k \in (a + 1)..Len(headings) : headings[k].level = "h2"}
                    sectionEnd == IF nextH2 # {} THEN headings[SetMin(nextH2)].start
                                  ELSE Len(html)
                    rules == {p \in (headings[b].end + 1)..sectionEnd : html[p] = "<hr>"}
                    backEnd == IF rules # {} THEN SetMin(rules) - 1 ELSE sectionEnd
                    front == strip(SubSeq(html, headings[f].end + 1, headings[b].start))
                    back == strip(SubSeq(html, headings[b].end + 1, backEnd))
                IN  (Cardinality(fronts) = 1 /\ Cardinality(backs) = 1 /\ f < b) =>
                        /\ front # << >> =>
                              \E j \in RowsFor(f) : out_rows[j].answer_html = front
                        /\ back # << >> =>
                              \E j \in RowsFor(b) : out_rows[j].answer_html = back

\* C12 amended: every walked AFTER_FRONT / AFTER_BACK heading under an H2
\* with text yields exactly one row holding what lies between the end of
\* that heading and the next heading of either level (or the document end),
\* trimmed, under the front or back field name, and no row when that content
\* is empty; a horizontal rule is content, and any H3 ends the content.
C12_SliceToNextHeading ==
    \A k \in Walked :
        ((IsFrontLabel(k) \/ IsBackLabel(k)) /\ HasNote(k)) =>
            IF ToNextHeading(k) = << >>
            THEN RowsFor(k) = {}
            ELSE /\ Cardinality(RowsFor(k)) = 1
                 /\ \A j \in RowsFor(k) :
                       /\ out_rows[j].answer_html = ToNextHeading(k)
                       /\ out_rows[j].field = IF IsFrontLabel(k) THEN "Front" ELSE "Back"

C12_Witness ==
    /\ xpc = "done"
    /\ \E f, m, b \in Walked :
          /\ f < m /\ m < b
          /\ IsFrontLabel(f) /\ IsBackLabel(b)
          /\ headings[m].level = "h3" /\ ~IsFrontLabel(m) /\ ~IsBackLabel(m)
          /\ HasNote(f) /\ Owner(f) = Owner(b)
          /\ \E j \in RowsFor(f) : out_rows[j].answer_html = << "x" >>
          /\ \E j \in RowsFor(b) : "<hr>" \in Range(out_rows[j].answer_html)

====
